---- MODULE Spec2Model ----
(***************************************************************************)
(* The ProjectQ device plugin (openqml_pq/projectq.py) as a state machine. *)
(*                                                                         *)
(* The state is one device object: its class, the fields __init__ sets     *)
(* (wires, backend, kwargs, n_eval, eng, reg) and the outcome of the last  *)
(* operation called on it.  The wrapped toolkit is outside the plugin: an  *)
(* engine is modelled by what the plugin hands to it (the backend class,   *)
(* the keyword arguments of the backend constructor, the gates sent to the *)
(* register, whether it was flushed), a register by its length and by      *)
(* whether All(Measure) was the last thing applied to it, and the values   *)
(* the backend returns (an expectation value, a table of probabilities)    *)
(* are inputs drawn from bounded sets.  Real numbers are fractions of Den. *)
(***************************************************************************)
EXTENDS Integers, Sequences, FiniteSets, TLC

VARIABLES constructed, cls, wires, backend, kwargs, n_eval, eng, reg, last

vars == <<constructed, cls, wires, backend, kwargs, n_eval, eng, reg, last>>

dev == <<constructed, cls, wires, backend, kwargs, n_eval, eng, reg>>

(* ---------------------------------------------------------------- bounds *)

\* The largest number of wires a device is constructed with.
MaxWires == 2

\* Probabilities and expectation values are multiples of 1/Den.
Den == 2

\* The largest number of gates sent to one engine.
MaxGates == 1

\* The number of wires the plugin test constructs every device with.
TestWires == 3

(* ------------------------------------------------------- python values *)

None == <<>>

Some(x) == <<x>>

PyStr(s) == [t |-> "str", n |-> 0, s |-> s]

PyInt(n) == [t |-> "int", n |-> n, s |-> ""]

PyBool(b) == [t |-> "bool", n |-> IF b THEN 1 ELSE 0, s |-> ""]

\* isinstance(v, int): bool is a subclass of int.
IsInstanceInt(v) == v.t \in {"int", "bool"}

EmptyDict == [k \in {} |-> PyInt(0)]

\* d[k] = v
DictSet(d, k, v) == [x \in DOMAIN d \cup {k} |-> IF x = k THEN v ELSE d[x]]

\* d.setdefault(k, v)
DictSetDefault(d, k, v) == IF k \in DOMAIN d THEN d ELSE DictSet(d, k, v)

\* del(d[k])
DictDel(d, k) == [x \in DOMAIN d \ {k} |-> d[x]]

(* ------------------------------------------------------ class attributes *)

Classes == {"ProjectQSimulator", "ProjectQClassicalSimulator", "ProjectQIBMBackend"}

\* The keys of projectq_operator_map; the value of a key is named by the
\* gate class it maps to.
projectq_operator_map ==
    [PauliX |-> "XGate", PauliY |-> "YGate", PauliZ |-> "ZGate",
     CNOT |-> "CNOT", CZ |-> "CZ", SWAP |-> "SwapGate",
     RX |-> "Rx", RY |-> "Ry", RZ |-> "Rz", PhaseShift |-> "R",
     QubitStateVector |-> "StatePreparation", Hadamard |-> "HGate",
     S |-> "SGate", T |-> "TGate", SqrtX |-> "SqrtXGate",
     SqrtSwap |-> "SqrtSwapGate", Rot |-> "Rot",
     QubitUnitary |-> "QubitUnitary"]

\* {key: val for key, val in m.items() if val in allowed}
FilterMap(m, allowed) == {key \in DOMAIN m : m[key] \in allowed}

SimulatorOperators == DOMAIN projectq_operator_map

ClassicalOperators == FilterMap(projectq_operator_map, {"XGate", "CNOT"})

IBMOperators ==
    FilterMap(projectq_operator_map,
              {"HGate", "XGate", "YGate", "ZGate", "SGate", "TGate",
               "SqrtXGate", "SwapGate", "Rx", "Ry", "Rz", "R", "CNOT", "CZ"})

_operator_map(c) ==
    CASE c = "ProjectQSimulator" -> SimulatorOperators
      [] c = "ProjectQClassicalSimulator" -> ClassicalOperators
      [] c = "ProjectQIBMBackend" -> IBMOperators

SimulatorObservables ==
    {key \in SimulatorOperators :
        projectq_operator_map[key] \in {"XGate", "YGate", "ZGate", "AllZGate"}}

ClassicalObservables ==
    {key \in ClassicalOperators :
        projectq_operator_map[key] \in {"ZGate", "AllZGate"}}

IBMObservables ==
    {key \in IBMOperators :
        projectq_operator_map[key] \in {"ZGate", "AllZGate"}}

_observable_map(c) ==
    CASE c = "ProjectQSimulator" -> SimulatorObservables
      [] c = "ProjectQClassicalSimulator" -> ClassicalObservables
      [] c = "ProjectQIBMBackend" -> IBMObservables

_backend_kwargs(c) ==
    CASE c = "ProjectQSimulator" -> {"gate_fusion", "rnd_seed"}
      [] c = "ProjectQClassicalSimulator" -> {}
      [] c = "ProjectQIBMBackend" ->
            {"use_hardware", "num_runs", "verbose", "user", "password",
             "device", "retrieve_execution"}

\* kwargs['backend'] = ... in each subclass's __init__
BackendName(c) ==
    CASE c = "ProjectQSimulator" -> "Simulator"
      [] c = "ProjectQClassicalSimulator" -> "ClassicalSimulator"
      [] c = "ProjectQIBMBackend" -> "IBMBackend"

(* ------------------------------------------------------------- __init__ *)

\* A constructor that forgets the second check.
IBMCredentialsMissing_UserOnly(kw) == "user" \notin DOMAIN kw

\* ProjectQIBMBackend.__init__: the two checks made before anything is set.
IBMCredentialsMissing(kw) == "user" \notin DOMAIN kw \/ "password" \notin DOMAIN kw

\* Whether constructing class c with these keyword arguments raises.
InitRaises(c, kw) == c = "ProjectQIBMBackend" /\ IBMCredentialsMissing(kw)

\* for k,v in {'log':'verbose'}.items(): if k in kwargs: kwargs.setdefault(v, kwargs[k])
TranslateArguments(kw) ==
    IF "log" \in DOMAIN kw THEN DictSetDefault(kw, "verbose", kw["log"]) ELSE kw

\* The test `isinstance(kwargs['num_runs'], int) and kwargs['num_runs']>0`.
NumRunsValid(kw) == IsInstanceInt(kw["num_runs"]) /\ kw["num_runs"].n > 0

\* The kwargs after the "clean some arguments" block.
CleanArguments(kw) ==
    IF "num_runs" \in DOMAIN kw /\ ~NumRunsValid(kw) THEN DictDel(kw, "num_runs") ELSE kw

\* self.n_eval after the "clean some arguments" block (unset when no num_runs is given).
NEvalOf(kw) ==
    IF "num_runs" \in DOMAIN kw
    THEN Some(IF NumRunsValid(kw) THEN kw["num_runs"].n ELSE 0)
    ELSE None

\* The kwargs ProjectQDevice.__init__ works on, up to `self.backend = kwargs['backend']`:
\* the subclass has set 'backend', then shots is defaulted, log translated and
\* num_runs cleaned.
InitKwargs(c, kw) ==
    CleanArguments(TranslateArguments(
        DictSetDefault(DictSet(kw, "backend", PyStr(BackendName(c))), "shots", PyInt(0))))

\* self.kwargs: what is left after del(kwargs['backend']).
StoredKwargs(c, kw) == DictDel(InitKwargs(c, kw), "backend")

\* The record of a call: the operation, how it ended, and its arguments: the
\* gate or observable name (for __init__ the class), the wires (as_int: wires
\* was an int, held as the one-element sequence), and for __init__ the keyword
\* arguments.  For expectation also the value returned (in units of 1/Den) and
\* the table of probabilities the backend returned, and for reset the engine
\* and the register the device held before, which the assignments drop.
Outcome(op, outcome, name, ws, as_int, ev, table) ==
    [op |-> op, outcome |-> outcome, name |-> name, wires |-> ws,
     as_int |-> as_int, ev |-> ev, table |-> table, kw |-> EmptyDict,
     dropped_eng |-> None, dropped_reg |-> None]

Plain(op, outcome) == Outcome(op, outcome, "", <<>>, FALSE, 0, <<>>)

Constructed(c, outcome, kw) == [Plain("__init__", outcome) EXCEPT !.name = c, !.kw = kw]

\* SubClass(wires, **kw)
Construct(c, w, kw) ==
    /\ ~constructed
    /\ IF InitRaises(c, kw)
       THEN /\ last' = Constructed(c, "ValueError", kw)
            /\ UNCHANGED dev
       ELSE /\ constructed' = TRUE
            /\ cls' = c
            /\ wires' = w
            /\ backend' = InitKwargs(c, kw)["backend"].s
            /\ kwargs' = StoredKwargs(c, kw)
            /\ n_eval' = NEvalOf(TranslateArguments(
                              DictSetDefault(DictSet(kw, "backend", PyStr(BackendName(c))),
                                             "shots", PyInt(0))))
            /\ eng' = None
            /\ reg' = None
            /\ last' = Constructed(c, "ok", kw)

Init ==
    /\ constructed = FALSE
    /\ cls = ""
    /\ wires = 0
    /\ backend = ""
    /\ kwargs = EmptyDict
    /\ n_eval = None
    /\ eng = None
    /\ reg = None
    /\ last = Plain("", "ok")

(* ---------------------------------------------------------------- reset *)

\* A filter that hands every stored keyword argument on.
filter_kwargs_for_backend_Unfiltered(c, kw) == kw

\* ProjectQDevice.filter_kwargs_for_backend
filter_kwargs_for_backend(c, kw) ==
    [key \in {k \in DOMAIN kw : k \in _backend_kwargs(c)} |-> kw[key]]

\* pq.MainEngine(pq.backends.<name>(**args)): a new engine, nothing sent to it yet.
\* ibm_setup: it was built with engine_list=pq.setups.ibm.get_engine_list().
MainEngine(name, args, ibm_setup) ==
    [backend |-> name, args |-> args, ibm_setup |-> ibm_setup,
     circuit |-> <<>>, flushed |-> FALSE]

\* eng.allocate_qureg(n): n new qubits, nothing applied to them.
allocate_qureg(n) == [n |-> n, measured |-> FALSE]

\* A reset that keeps the engine the device already has.
DeviceReset_KeepsEngine(e) ==
    /\ eng' = IF eng = None THEN Some(e) ELSE eng
    /\ reg' = Some(allocate_qureg(wires))
    /\ last' = [Plain("reset", "ok") EXCEPT !.dropped_eng = eng, !.dropped_reg = reg]
    /\ UNCHANGED <<constructed, cls, wires, backend, kwargs, n_eval>>

\* ProjectQDevice.reset, run by each subclass's reset on the engine e it has just built.
DeviceReset(e) ==
    /\ eng' = Some(e)
    /\ reg' = Some(allocate_qureg(wires))
    /\ last' = [Plain("reset", "ok") EXCEPT !.dropped_eng = eng, !.dropped_reg = reg]
    /\ UNCHANGED <<constructed, cls, wires, backend, kwargs, n_eval>>

SimulatorReset ==
    /\ constructed /\ cls = "ProjectQSimulator"
    /\ DeviceReset(MainEngine("Simulator", filter_kwargs_for_backend(cls, kwargs), FALSE))

ClassicalSimulatorReset ==
    /\ constructed /\ cls = "ProjectQClassicalSimulator"
    /\ DeviceReset(MainEngine("ClassicalSimulator",
                              filter_kwargs_for_backend(cls, kwargs), FALSE))

IBMBackendReset ==
    /\ constructed /\ cls = "ProjectQIBMBackend"
    /\ DeviceReset(MainEngine("IBMBackend", filter_kwargs_for_backend(cls, kwargs), TRUE))

(* ---------------------------------------------------------------- apply *)

\* How apply(gate_name, wires, par) ends.  The lookup in _operator_map comes
\* first, then self.reg[i] for each i of wires, in order (none for an empty
\* list).  What the gate constructor does with par and what the toolkit does
\* with the gate it is handed are outside the plugin: they are taken to
\* succeed.
ApplyOutcome(c, r, gate_name, ws) ==
    IF gate_name \notin _operator_map(c) THEN "KeyError"
    ELSE IF ws = <<>> THEN "ok"
    ELSE IF r = None THEN "TypeError"
    ELSE IF \E i \in 1..Len(ws) : ws[i] >= r[1].n THEN "IndexError"
    ELSE "ok"

\* ProjectQDevice.apply: on success the gate is sent to the engine on the
\* qubits named by wires, which are then no longer freshly measured.
Apply(gate_name, ws) ==
    /\ constructed
    /\ eng # None => Len(eng[1].circuit) < MaxGates
    /\ LET out == ApplyOutcome(cls, reg, gate_name, ws) IN
       /\ last' = Outcome("apply", out, gate_name, ws, FALSE, 0, <<>>)
       /\ IF out = "ok" /\ reg # None
          THEN /\ eng' = Some([eng[1] EXCEPT !.circuit = Append(@, <<gate_name, ws>>)])
               /\ reg' = Some([reg[1] EXCEPT !.measured = FALSE])
          ELSE UNCHANGED <<eng, reg>>
    /\ UNCHANGED <<constructed, cls, wires, backend, kwargs, n_eval>>

(* ----------------------------------------------------- pre_expectations *)

\* ProjectQSimulator.pre_expectations: self.eng.flush(deallocate_qubits=False)
SimulatorPreExpectations ==
    /\ constructed /\ cls = "ProjectQSimulator"
    /\ IF eng = None
       THEN /\ last' = Plain("pre_expectations", "AttributeError")
            /\ UNCHANGED eng
       ELSE /\ last' = Plain("pre_expectations", "ok")
            /\ eng' = Some([eng[1] EXCEPT !.flushed = TRUE])
    /\ UNCHANGED <<constructed, cls, wires, backend, kwargs, n_eval, reg>>

\* ProjectQIBMBackend.pre_expectations: All(Measure) | self.reg, then
\* self.eng.flush().  Before the first reset both self.reg and self.eng are
\* None and the call ends in an error, at the flush at the latest.
IBMBackendPreExpectations ==
    /\ constructed /\ cls = "ProjectQIBMBackend"
    /\ IF reg = None
       THEN /\ last' = Plain("pre_expectations", "TypeError")
            /\ UNCHANGED <<eng, reg>>
       ELSE /\ last' = Plain("pre_expectations", "ok")
            /\ reg' = Some([reg[1] EXCEPT !.measured = TRUE])
            /\ eng' = Some([eng[1] EXCEPT !.flushed = TRUE])
    /\ UNCHANGED <<constructed, cls, wires, backend, kwargs, n_eval>>

(* ---------------------------------------------------- post_expectations *)

\* ProjectQDevice._deallocate: whether All(Measure) is applied to the register.
DeallocateMeasures(e, b) == e # None /\ b = "Simulator"

\* ProjectQDevice.post_expectations
PostExpectations ==
    /\ constructed
    /\ last' = Plain("post_expectations", "ok")
    /\ IF DeallocateMeasures(eng, backend)
       THEN reg' = Some([reg[1] EXCEPT !.measured = TRUE])
       ELSE UNCHANGED reg
    /\ UNCHANGED <<constructed, cls, wires, backend, kwargs, n_eval, eng>>

(* ---------------------------------------------------------- expectation *)

\* The wire an expectation reads: wires itself when it is an int (held here
\* as the one-element sequence), wires[0] otherwise.
WireOf(as_int, ws) == ws[1]

\* The measured outcomes of an n-qubit register: strings of '0' and '1', the
\* character at Python position i held at index i+1.
States(n) == [1..n -> {0, 1}]

RECURSIVE SumOver(_, _)
\* sum(f[x] for x in S)
SumOver(f, S) ==
    IF S = {} THEN 0
    ELSE LET x == CHOOSE y \in S : TRUE IN f[x] + SumOver(f, S \ {x})

\* The table get_probabilities builds from Den runs of the circuit, shots[i]
\* the outcome of run i: each outcome that occurred, with its share of the
\* runs in units of 1/Den.
TableOf(shots) ==
    [state \in {shots[i] : i \in 1..Den} |-> Cardinality({i \in 1..Den : shots[i] = state})]

\* The tables get_probabilities can return for a register of n qubits.
ProbTables(n) == {TableOf(shots) : shots \in [1..Den -> States(n)]}

\* sum(p for (state,p) in probabilities.items() if state[wire] == bit), in units of 1/Den
ProbSum(probabilities, wire, bit) ==
    SumOver(probabilities, {state \in DOMAIN probabilities : state[wire + 1] = bit})

\* A read-out that sums every outcome, whatever the wire shows, in its first sum.
IBMExpectationValue_AnyWire(probabilities, wire) ==
    (2 * SumOver(probabilities, DOMAIN probabilities) - Den)
        - (2 * ProbSum(probabilities, wire, 0) - Den)

\* ev of ProjectQIBMBackend.expectation, in units of 1/Den:
\* (2*sum(... == '1') - 1) - (2*sum(... == '0') - 1)
IBMExpectationValue(probabilities, wire) ==
    (2 * ProbSum(probabilities, wire, 1) - Den) - (2 * ProbSum(probabilities, wire, 0) - Den)

\* A simulator that takes no PauliY.
SimulatorAccepts_NoPauliY(observable) == observable = "PauliX" \/ observable = "PauliZ"

\* The observable names ProjectQSimulator.expectation takes.
SimulatorAccepts(observable) ==
    observable = "PauliX" \/ observable = "PauliY" \/ observable = "PauliZ"

\* The observable names ProjectQIBMBackend.expectation takes.
IBMBackendAccepts(observable) == observable = "PauliZ"

\* How ProjectQSimulator.expectation ends: the name is tested first, the wire
\* is taken, then self.eng.backend and self.reg[wire] are read.
SimulatorExpectationOutcome(e, r, observable, as_int, ws) ==
    IF ~SimulatorAccepts(observable) THEN "DeviceError"
    ELSE IF ~as_int /\ ws = <<>> THEN "IndexError"
    ELSE IF e = None THEN "AttributeError"
    ELSE IF WireOf(as_int, ws) >= r[1].n THEN "IndexError"
    ELSE "ok"

\* The values get_expectation_value returns, in units of 1/Den.
EvRange == {0 - Den, 0, Den}

\* ProjectQSimulator.expectation; ev is what get_expectation_value returns.
SimulatorExpectation(observable, as_int, ws) ==
    /\ constructed /\ cls = "ProjectQSimulator"
    /\ LET out == SimulatorExpectationOutcome(eng, reg, observable, as_int, ws) IN
       \E ev \in IF out = "ok" THEN EvRange ELSE {0} :
          last' = Outcome("expectation", out, observable, ws, as_int, ev, <<>>)
    /\ UNCHANGED dev

\* How ProjectQIBMBackend.expectation ends: self.eng.backend.get_probabilities
\* is called first, then the name is tested, the wire taken and state[wire]
\* read for each outcome of the table.
IBMBackendExpectationOutcome(e, r, observable, as_int, ws) ==
    IF e = None THEN "AttributeError"
    ELSE IF ~IBMBackendAccepts(observable) THEN "DeviceError"
    ELSE IF ~as_int /\ ws = <<>> THEN "IndexError"
    ELSE IF WireOf(as_int, ws) >= r[1].n THEN "IndexError"
    ELSE "ok"

\* ProjectQIBMBackend.expectation; probabilities is what get_probabilities
\* returns for the register.
IBMBackendExpectation(observable, as_int, ws, probabilities) ==
    /\ constructed /\ cls = "ProjectQIBMBackend"
    /\ LET out == IBMBackendExpectationOutcome(eng, reg, observable, as_int, ws) IN
       last' = IF out = "ok"
               THEN Outcome("expectation", out, observable, ws, as_int,
                            IBMExpectationValue(probabilities, WireOf(as_int, ws)),
                            probabilities)
               ELSE Outcome("expectation", out, observable, ws, as_int, 0, <<>>)
    /\ UNCHANGED dev

(* -------------------------------------------------------------- inputs *)

\* Keyword arguments a device is constructed with.
KwargsPool ==
    {EmptyDict,
     [user |-> PyStr("alice")],
     [user |-> PyStr("alice"), password |-> PyStr("secret"), num_runs |-> PyInt(2),
      log |-> PyBool(TRUE), rnd_seed |-> PyInt(1), backend |-> PyStr("Simulator")],
     [user |-> PyStr("alice"), password |-> PyStr("secret"), num_runs |-> PyInt(0),
      log |-> PyBool(TRUE), verbose |-> PyBool(FALSE), gate_fusion |-> PyBool(TRUE),
      shots |-> PyInt(1)]}

\* Gate names apply is called with: in every operator map, in two, in one, in none.
GatePool == {"PauliX", "Hadamard", "Rot", "Toffoli"}

\* list(range(k))
FirstWires(k) == [i \in 1..k |-> i - 1]

\* Wire lists apply is called with: the first wire, the first two, and a wire
\* no register has.
WireLists == {FirstWires(1), FirstWires(2), <<MaxWires>>}

\* Observable names expectation is called with: taken by both devices, by the
\* simulator only, by neither.
ObservablePool == {"PauliZ", "PauliX", "Identity"}

\* The tables of one run: the whole probability on one outcome.
PointTables(n) == {[state \in {st} |-> Den] : st \in States(n)}

\* What get_probabilities returns when expectation calls it, out of the tables
\* T of the register; there is no call without an engine.
Returned(T) == IF eng = None THEN {<<>>} ELSE T

\* The operations of a device, in any order and on any of the three classes.
\* ProjectQClassicalSimulator defines neither pre_expectations nor
\* expectation: it inherits them from the host framework's Device, and they
\* are no operation of this model.
Next ==
    \/ \E c \in Classes, w \in 1..MaxWires, kw \in KwargsPool : Construct(c, w, kw)
    \/ SimulatorReset
    \/ ClassicalSimulatorReset
    \/ IBMBackendReset
    \/ \E g \in GatePool, ws \in WireLists : Apply(g, ws)
    \/ SimulatorPreExpectations
    \/ IBMBackendPreExpectations
    \/ PostExpectations
    \/ \E o \in ObservablePool, w \in 0..MaxWires : SimulatorExpectation(o, TRUE, <<w>>)
    \/ \E o \in ObservablePool, ws \in WireLists \cup {<<>>} : SimulatorExpectation(o, FALSE, ws)
    \/ \E o \in ObservablePool, w \in 0..MaxWires, t \in Returned(PointTables(wires)) :
          IBMBackendExpectation(o, TRUE, <<w>>, t)
    \/ \E o \in ObservablePool, ws \in WireLists \cup {<<>>}, t \in Returned(PointTables(wires)) :
          IBMBackendExpectation(o, FALSE, ws, t)

Spec == Init /\ [][Next]_vars

(* ------------------------------------- the read-out of the IBM backend *)

Credentials == [user |-> PyStr("alice"), password |-> PyStr("secret")]

\* An IBMBackend device run on every table of probabilities Den runs of the
\* circuit can give.
NextReadout ==
    \/ \E w \in 1..MaxWires : Construct("ProjectQIBMBackend", w, Credentials)
    \/ IBMBackendReset
    \/ Apply("PauliX", FirstWires(1))
    \/ IBMBackendPreExpectations
    \/ PostExpectations
    \/ \E o \in {"PauliZ", "PauliX"}, w \in 0..MaxWires, t \in Returned(ProbTables(wires)) :
          IBMBackendExpectation(o, TRUE, <<w>>, t)
    \/ \E ws \in WireLists \cup {<<>>}, t \in Returned(ProbTables(wires)) :
          IBMBackendExpectation("PauliZ", FALSE, ws, t)

SpecReadout == Init /\ [][NextReadout]_vars

(* ------------------------------------------- every keyword argument set *)

KwargsKeys ==
    {"user", "password", "num_runs", "log", "verbose", "rnd_seed", "backend", "shots"}

\* num_runs as a positive int, as a non-positive int, as True and as a string.
NumRunsValues == {PyInt(2), PyInt(0), PyBool(TRUE), PyStr("many")}

KwargsValue(k, num_runs) ==
    CASE k = "user" -> PyStr("alice")
      [] k = "password" -> PyStr("secret")
      [] k = "num_runs" -> num_runs
      [] k = "log" -> PyBool(TRUE)
      [] k = "verbose" -> PyBool(FALSE)
      [] k = "rnd_seed" -> PyInt(1)
      [] k = "backend" -> PyStr("ClassicalSimulator")
      [] k = "shots" -> PyInt(1)

\* Every set of the keys, with every value of num_runs.
AllKwargs ==
    {[k \in K |-> KwargsValue(k, v)] : K \in SUBSET KwargsKeys, v \in NumRunsValues}

\* The three devices constructed with every set of keyword arguments, then
\* put through their operations.
NextKwargs ==
    \/ \E c \in Classes, kw \in AllKwargs : Construct(c, 1, kw)
    \/ SimulatorReset
    \/ ClassicalSimulatorReset
    \/ IBMBackendReset
    \/ Apply("PauliX", FirstWires(1))
    \/ SimulatorPreExpectations
    \/ IBMBackendPreExpectations
    \/ PostExpectations
    \/ SimulatorExpectation("PauliZ", TRUE, <<0>>)
    \/ \E t \in Returned(PointTables(wires)) : IBMBackendExpectation("PauliZ", TRUE, <<0>>, t)

SpecKwargs == Init /\ [][NextKwargs]_vars

(* ------------------------------------------------------ the plugin test *)

\* PluginTest.test_plugin_device: the device class is constructed with the
\* standard parameters only (wires); a ValueError ends the test.  Then, for
\* every gate of the device and every observable of the device, one circuit
\* of the gate on the first wires and the observable on wire 0 is run: reset,
\* apply, pre_expectations, expectation, post_expectations.  A device with no
\* observable runs no circuit, and the simulator is the only class that is
\* constructed and has one.
TestConstruct == \E c \in Classes : Construct(c, TestWires, EmptyDict)

TestCircuitStarts ==
    /\ constructed
    /\ _observable_map(cls) # {}
    /\ last.op \in {"__init__", "post_expectations"} \/ last.outcome # "ok"

TestReset == TestCircuitStarts /\ SimulatorReset

TestApply ==
    /\ last.op = "reset" /\ last.outcome = "ok"
    /\ \E gate \in _operator_map(cls), k \in 1..2 : Apply(gate, FirstWires(k))

TestPreExpectations ==
    /\ last.op = "apply" /\ last.outcome = "ok"
    /\ SimulatorPreExpectations

TestExpectation ==
    /\ last.op = "pre_expectations" /\ last.outcome = "ok"
    /\ \E observable \in _observable_map(cls), as_int \in BOOLEAN :
          SimulatorExpectation(observable, as_int, <<0>>)

TestPostExpectations ==
    /\ last.op = "expectation" /\ last.outcome = "ok"
    /\ PostExpectations

NextTest ==
    \/ TestConstruct
    \/ TestReset
    \/ TestApply
    \/ TestPreExpectations
    \/ TestExpectation
    \/ TestPostExpectations

SpecTest == Init /\ [][NextTest]_vars

(* ================================================================ claims *)

(* --------------------------------------------------------------------- C1 *)

\* The call record is of a construction of the IBM device without both credentials.
C1_WithoutCredentials ==
    /\ last.op = "__init__"
    /\ last.name = "ProjectQIBMBackend"
    /\ ~({"user", "password"} \subseteq DOMAIN last.kw)

NoDeviceState ==
    /\ ~constructed /\ cls = "" /\ wires = 0 /\ backend = "" /\ kwargs = EmptyDict
    /\ n_eval = None /\ eng = None /\ reg = None

\* C1: constructing the IBM device without 'user', or with 'user' and without
\* 'password', ends in a ValueError and sets no device state; every other
\* construction (the IBM device with both keys, the other two devices with
\* any keys) succeeds and leaves the engine and the register unset; and they
\* stay unset until a reset.
C1_CredentialsRequired ==
    /\ [](last.op = "__init__" =>
            IF C1_WithoutCredentials
            THEN last.outcome = "ValueError" /\ NoDeviceState
            ELSE /\ last.outcome = "ok" /\ constructed
                 /\ cls = last.name /\ backend = BackendName(last.name)
                 /\ eng = None /\ reg = None)
    /\ [][(eng' # eng \/ reg' # reg) /\ (eng = None \/ reg = None) => last'.op = "reset"]_vars

\* The IBM device was constructed with a user and no password, and that failed.
C1_Witness ==
    /\ last.op = "__init__" /\ last.name = "ProjectQIBMBackend"
    /\ "user" \in DOMAIN last.kw /\ "password" \notin DOMAIN last.kw
    /\ last.outcome = "ValueError"

(* --------------------------------------------------------------------- C7 *)

\* The allow-list of each device, as the claim gives it.
C7_AllowList ==
    [ProjectQSimulator |-> {"gate_fusion", "rnd_seed"},
     ProjectQClassicalSimulator |-> {},
     ProjectQIBMBackend |-> {"use_hardware", "num_runs", "verbose", "user", "password",
                             "device", "retrieve_execution"}]

\* C7: the keyword arguments the backend of the current engine was constructed
\* with are exactly the entries of the stored kwargs whose key is in the
\* device's allow-list, with their values; 'backend', 'shots' and 'log' are
\* never among them; and no operation on a constructed device changes the
\* stored kwargs, so every reset passes the same arguments.
C7_BackendKwargsFiltered ==
    /\ [](eng # None =>
            /\ DOMAIN eng[1].args = DOMAIN kwargs \cap C7_AllowList[cls]
            /\ \A k \in DOMAIN eng[1].args : eng[1].args[k] = kwargs[k]
            /\ DOMAIN eng[1].args \cap {"backend", "shots", "log"} = {})
    /\ [][constructed => kwargs' = kwargs]_vars

\* An IBM device given 'log' and 'shots' has been reset: 'verbose' reached the
\* backend, and the stored kwargs hold keys that did not.
C7_Witness ==
    /\ last.op = "reset" /\ cls = "ProjectQIBMBackend"
    /\ {"log", "shots", "rnd_seed"} \subseteq DOMAIN kwargs
    /\ {"verbose", "user", "num_runs"} \subseteq DOMAIN eng[1].args

(* --------------------------------------------------------------------- C4 *)

\* The wire an expectation was called on.
C4_Wire == last.wires[1]

\* The probability (in units of 1/Den) that the called wire shows `bit`: the
\* sum, over every outcome string of the register, of what the returned table
\* gives it when the string's character at the wire is `bit`.
C4_P(bit) ==
    LET share(state) ==
            IF state \in DOMAIN last.table /\ state[C4_Wire + 1] = bit
            THEN last.table[state] ELSE 0
        total[S \in SUBSET States(wires)] ==
            IF S = {} THEN 0
            ELSE LET x == CHOOSE y \in S : TRUE IN share(x) + total[S \ {x}]
    IN total[States(wires)]

\* An expectation of the IBM device that returned a value.
C4_Returned ==
    /\ last.op = "expectation" /\ last.outcome = "ok" /\ cls = "ProjectQIBMBackend"

\* C4: on the IBM device, expectation('PauliZ', wires, par) on a device with
\* an engine returns, for every table of probabilities of the backend and
\* every wire within the register, ev = 2*P(1) - 2*P(0), P(b) the sum of the
\* probabilities of the outcomes whose character at the wire is b, the wire
\* being wires itself when it is an int and wires[0] otherwise.
C4_ReadoutFormula ==
    /\ C4_Returned => last.ev = 2 * C4_P(1) - 2 * C4_P(0)
    /\ /\ last.op = "expectation" /\ cls = "ProjectQIBMBackend" /\ last.name = "PauliZ"
       /\ eng # None /\ last.wires # <<>> /\ C4_Wire < wires
       => last.outcome = "ok"

\* After the circuit was run, the second wire of a register was read out of a
\* table of two outcomes that differ at that wire.
C4_Witness ==
    /\ C4_Returned /\ eng[1].flushed /\ C4_Wire = 1
    /\ Cardinality(DOMAIN last.table) = 2
    /\ C4_P(1) > 0 /\ C4_P(0) > 0

(* --------------------------------------------------------------------- C5 *)

\* C5: when the called wire's two outcomes have P(0) + P(1) = 1, the value the
\* IBM device returns for 'PauliZ' is 1 - 2*P(1), and so lies in [-1, +1].
C5_UnitScale ==
    C4_Returned /\ C4_P(0) + C4_P(1) = Den =>
        /\ last.ev = Den - 2 * C4_P(1)
        /\ last.ev >= 0 - Den /\ last.ev <= Den

(* --------------------------------------------------------------------- C9 *)

C10_Fresh ==
    /\ eng # None /\ reg # None
    /\ eng[1].backend = backend /\ eng[1].backend = BackendName(cls)
    /\ eng[1].circuit = <<>> /\ ~eng[1].flushed
    /\ reg[1].n = wires /\ ~reg[1].measured

\* C10: after a reset, whatever came before it, the device holds a new engine
\* that no gate was sent to and a new register of `wires` qubits that nothing
\* was applied to; no operation on a constructed device changes its class,
\* backend name, wire count or stored kwargs; and a reset right after a reset
\* leaves the device as the first one did.
C10_ResetIsFresh ==
    /\ [](last.op = "reset" => last.outcome = "ok" /\ C10_Fresh)
    /\ [][constructed =>
            /\ constructed' /\ cls' = cls /\ backend' = backend
            /\ wires' = wires /\ kwargs' = kwargs /\ n_eval' = n_eval]_vars
    /\ [][last.op = "reset" /\ last'.op = "reset" => dev' = dev]_vars

\* A reset of a device whose engine had been sent a gate and flushed and whose
\* register had been measured.
C10_Witness ==
    /\ last.op = "reset" /\ C10_Fresh
    /\ last.dropped_eng # None /\ last.dropped_reg # None
    /\ last.dropped_eng[1].circuit # <<>> /\ last.dropped_eng[1].flushed
    /\ last.dropped_reg[1].measured

(* --------------------------------------------------------------------- C2 *)

\* C2: expectation ends in a DeviceError, with no value, engine and register
\* unchanged, for every observable name other than PauliX, PauliY, PauliZ on
\* the simulator and other than PauliZ on the IBM device, and returns a value
\* for every name of those sets (here: called on wire 0, which every register
\* has).
C2_UnsupportedRejected ==
    /\ last.op = "expectation" /\ last.as_int /\ last.wires = <<0>>
    => LET accepted == IF cls = "ProjectQSimulator"
                       THEN {"PauliX", "PauliY", "PauliZ"} ELSE {"PauliZ"}
       IN  IF last.name \in accepted
           THEN last.outcome = "ok"
           ELSE last.outcome = "DeviceError"

(* --------------------------------------------------------------------- C3 *)

\* C3: whatever the operations called on a device and their order, a call
\* ends without an error, or it is an expectation that rejects its observable
\* name with a DeviceError, or the construction of the IBM device that fails
\* for want of credentials.
C3_OnlyTwoErrors ==
    \/ last.outcome = "ok"
    \/ last.op = "expectation" /\ last.outcome = "DeviceError"
    \/ last.op = "__init__" /\ last.outcome = "ValueError"
          /\ last.name = "ProjectQIBMBackend"

(* --------------------------------------------------------------------- C6 *)

\* C6: the register is unset from the construction to the first reset, set by
\* a reset, and unset again once post_expectations has run.
C6_RegisterOnlyWhileActive ==
    /\ last.op = "__init__" => reg = None
    /\ last.op = "reset" => reg # None
    /\ last.op = "post_expectations" => reg = None

(* --------------------------------------------------------------------- C8 *)

\* C8: on the simulator device, a register that a reset replaces has had all
\* its qubits measured since the last gate applied to it.
C8_NoRegisterDroppedUnmeasured ==
    /\ cls = "ProjectQSimulator" /\ last.op = "reset" /\ last.dropped_reg # None
    => last.dropped_reg[1].measured

====
